---------------------------- MODULE Spec2Model ----------------------------
(***************************************************************************)
(* Model of Laba_2/parallel_trace.cpp: the sum of the traces of a fixed    *)
(* collection of square matrices, computed by N worker threads over        *)
(* contiguous index ranges, for the thread counts 1, 2, 4, 8 in turn.      *)
(*                                                                         *)
(* Indices are 0-based as in the source: vectors are functions on 0..n-1.  *)
(* The main thread and every worker thread take one step at a time; the    *)
(* steps of different threads interleave freely.                           *)
(***************************************************************************)
EXTENDS Integers, Sequences, FiniteSets, TLC

(***************************************************************************)
(* Bounds of the model.  The program's NUM_MATRICES (1000), MATRIX_SIZE    *)
(* (50) and value range (-100..100) are scaled down to these.              *)
(***************************************************************************)
MATRIX_SIZE == 2
MaxAbsValue == 1
MaxDiagValue == 4
ProgMatrices == 8
MaxAnyMatrices == 4
MaxAnyThreads == 3
MaxPartMatrices == 10
MaxPartThreads == 4

VARIABLES
    NUM_MATRICES,        \* number of matrices in the collection
    matrices,            \* the collection: 0..NUM_MATRICES-1 -> Matrix
    thread_counts,       \* the list of thread counts to try
    trial,               \* position of the range-for over thread_counts (1-based)
    pc,                  \* position of the main thread
    num_threads,         \* current trial: number of workers
    threads,             \* current trial: vector of launched threads, 0..size-1
    partial_results,     \* current trial: vector of N slots
    matrices_per_thread, \* current trial: NUM_MATRICES / num_threads
    i,                   \* main thread: launch loop index
    joined,              \* main thread: number of threads joined so far
    res_idx,             \* main thread: position of the aggregation loop
    total_trace,         \* main thread: running grand total
    start_time,          \* current trial: start timestamp
    end_time,            \* current trial: end timestamp
    now,                 \* the clock: number of steps taken so far
    reports,             \* what has been printed: <<[num_threads, total, elapsed]>>
    writers,             \* history: per slot, the threads that wrote it, in order
    ub                   \* history: a worker indexed matrices out of range

vars == <<NUM_MATRICES, matrices, thread_counts, trial, pc, num_threads, threads,
          partial_results, matrices_per_thread, i, joined, res_idx, total_trace,
          start_time, end_time, now, reports, writers, ub>>

(***************************************************************************)
(* Data                                                                    *)
(***************************************************************************)
RANDOM_MIN == 0 - MaxAbsValue
RANDOM_MAX == MaxAbsValue

Idx == 0 .. MATRIX_SIZE - 1

\* Matrix(MATRIX_SIZE, std::vector<int>(MATRIX_SIZE)): all cells zero
ZeroMatrix == [r \in Idx |-> [c \in Idx |-> 0]]

\* the matrix whose cells are numbered 1, 2, ... row by row ([[1,2],[3,4]] for size 2)
RowMajorMatrix == [r \in Idx |-> [c \in Idx |-> r * MATRIX_SIZE + c + 1]]

\* cells drawn by distrib(gen): every one in RANDOM_MIN..RANDOM_MAX
MinMatrix == [r \in Idx |-> [c \in Idx |-> RANDOM_MIN]]
MaxMatrix == [r \in Idx |-> [c \in Idx |-> RANDOM_MAX]]

\* a matrix with the diagonal d and the off-diagonal cells of f
WithDiagonal(d, f) == [r \in Idx |-> [c \in Idx |-> IF r = c THEN d[r] ELSE f[r][c]]]

\* the matrices a collection is drawn from when the collection is enumerated
SmallPool == {RowMajorMatrix, MinMatrix}

\* the matrices a single matrix is drawn from: every diagonal over 0..MaxDiagValue
\* and RANDOM_MIN..RANDOM_MAX, over four different off-diagonal fillings
BigPool ==
    {WithDiagonal(d, f) : d \in [Idx -> RANDOM_MIN .. MaxDiagValue],
                          f \in {ZeroMatrix, RowMajorMatrix, MinMatrix, MaxMatrix}}

(***************************************************************************)
(* calculate_trace: for (i = 0; i < MATRIX_SIZE; ++i) trace += matrix[i][i] *)
(***************************************************************************)
RECURSIVE TraceLoop(_, _, _)
TraceLoop(matrix, k, trace) ==
    IF k < MATRIX_SIZE
    THEN TraceLoop(matrix, k + 1, trace + matrix[k][k])
    ELSE trace

\* a variant that sums row 0 instead of the diagonal
RECURSIVE FirstRowLoop(_, _, _)
FirstRowLoop(matrix, k, trace) ==
    IF k < MATRIX_SIZE
    THEN FirstRowLoop(matrix, k + 1, trace + matrix[0][k])
    ELSE trace

MutTraceFirstRow(matrix) == FirstRowLoop(matrix, 0, 0)

calculate_trace(matrix) == TraceLoop(matrix, 0, 0)

(***************************************************************************)
(* Vectors as functions on 0..n-1                                          *)
(***************************************************************************)
Size(v) == Cardinality(DOMAIN v)

EmptyVec == [k \in {} |-> 0]

EmplaceBack(v, x) == [k \in 0 .. Size(v) |-> IF k < Size(v) THEN v[k] ELSE x]

(***************************************************************************)
(* The partition of one trial, as the launch loop computes it              *)
(***************************************************************************)
\* a variant that divides rounding up
MutPerThreadCeiling(m, n) == (m + n - 1) \div n

\* a variant that never gives a worker fewer than one matrix
MutPerThreadAtLeastOne(m, n) == IF m \div n = 0 THEN 1 ELSE m \div n

\* line 92: NUM_MATRICES / num_threads, integer division
PerThread(m, n) == m \div n

\* a variant whose ranges overlap by one matrix
MutStartIndexOverlap(k) == IF k = 0 THEN 0 ELSE k * matrices_per_thread - 1

StartIndex(k) == k * matrices_per_thread

\* a variant in which the last worker does not take the remainder
MutEndIndexNoRemainder(k) == k * matrices_per_thread + matrices_per_thread

\* a variant whose last range ends one past the collection
MutEndIndexPastEnd(k) ==
    IF k = num_threads - 1
    THEN NUM_MATRICES + 1
    ELSE k * matrices_per_thread + matrices_per_thread

EndIndex(k) ==
    IF k = num_threads - 1 THEN NUM_MATRICES ELSE StartIndex(k) + matrices_per_thread

\* a variant in which every thread is given slot 0
MutResultRefShared(k) == 0

\* the reference the k-th thread is given for its result: partial_results[k]
ResultRef(k) == k

\* a variant whose range includes end_index
MutNewThreadEndInclusive(k) ==
    [state       |-> "run",
     start_index |-> StartIndex(k),
     end_index   |-> EndIndex(k) + 1,
     i           |-> StartIndex(k),
     partial_sum |-> 0,
     trace       |-> 0,
     reads       |-> <<>>,
     result      |-> ResultRef(k)]

\* the thread object created by threads.emplace_back(trace_worker, ...)
NewThread(k) ==
    [state       |-> "run",
     start_index |-> StartIndex(k),
     end_index   |-> EndIndex(k),
     i           |-> StartIndex(k),
     partial_sum |-> 0,
     trace       |-> 0,
     reads       |-> <<>>,
     result      |-> ResultRef(k)]

(***************************************************************************)
(* Initial states                                                          *)
(***************************************************************************)
InitTrial ==
    /\ trial = 1
    /\ pc = "for_trial"
    /\ num_threads = 0
    /\ threads = EmptyVec
    /\ partial_results = EmptyVec
    /\ matrices_per_thread = 0
    /\ i = 0
    /\ joined = 0
    /\ res_idx = 0
    /\ total_trace = 0
    /\ start_time = 0
    /\ end_time = 0
    /\ now = 0
    /\ reports = <<>>
    /\ writers = EmptyVec
    /\ ub = FALSE

\* std::vector<int> thread_counts = {1, 2, 4, 8}
ProgThreadCounts == <<1, 2, 4, 8>>

\* a collection in which two matrices alternate
Alternating(n, m1, m2) == [k \in 0 .. n - 1 |-> IF k % 2 = 0 THEN m1 ELSE m2]

ProgPool == {ZeroMatrix, RowMajorMatrix, MinMatrix, MaxMatrix}

\* the program: thread counts 1, 2, 4, 8 over a generated collection
Init ==
    /\ thread_counts = ProgThreadCounts
    /\ NUM_MATRICES = ProgMatrices
    /\ \E m1 \in ProgPool, m2 \in ProgPool :
           matrices = Alternating(NUM_MATRICES, m1, m2)
    /\ InitTrial

\* the program over the collections in which two matrices of SmallPool alternate
InitLive ==
    /\ thread_counts = ProgThreadCounts
    /\ NUM_MATRICES = ProgMatrices
    /\ \E m1 \in SmallPool, m2 \in SmallPool :
           matrices = Alternating(NUM_MATRICES, m1, m2)
    /\ InitTrial

\* the matrices whose cells are all an extreme or the middle of the value range
RangePool == {MinMatrix, MaxMatrix, ZeroMatrix}

\* the program over collections whose cells all lie in RANDOM_MIN..RANDOM_MAX,
\* as distrib(gen) draws them
InitRange ==
    /\ thread_counts = ProgThreadCounts
    /\ NUM_MATRICES = ProgMatrices
    /\ \E m1 \in RangePool, m2 \in RangePool :
           matrices = Alternating(NUM_MATRICES, m1, m2)
    /\ InitTrial

\* the program with fewer matrices: a trial with one worker, then one with n
\* workers, over every collection of matrices of SmallPool
InitAny ==
    /\ \E n \in 1 .. MaxAnyThreads : thread_counts = <<1, n>>
    /\ NUM_MATRICES \in 1 .. MaxAnyMatrices
    /\ matrices \in [0 .. NUM_MATRICES - 1 -> SmallPool]
    /\ InitTrial

\* one trial with n workers over copies of one matrix, for every size and n
InitPart ==
    /\ \E n \in 1 .. MaxPartThreads : thread_counts = <<n>>
    /\ NUM_MATRICES \in 1 .. MaxPartMatrices
    /\ matrices = [k \in 0 .. NUM_MATRICES - 1 |-> RowMajorMatrix]
    /\ InitTrial

\* one trial with one worker over a single matrix, for every matrix of BigPool
InitTrace ==
    /\ thread_counts = <<1>>
    /\ NUM_MATRICES = 1
    /\ matrices \in [0 .. 0 -> BigPool]
    /\ InitTrial

(***************************************************************************)
(* The main thread                                                         *)
(***************************************************************************)
\* a variant whose partial_results outlives the trials and is only resized
MutForTrialResizes ==
    /\ pc = "for_trial"
    /\ trial <= Len(thread_counts)
    /\ num_threads' = thread_counts[trial]
    /\ threads' = EmptyVec
    /\ partial_results' = [k \in 0 .. thread_counts[trial] - 1 |->
                               IF k \in DOMAIN partial_results
                               THEN partial_results[k] ELSE 0]
    /\ writers' = [k \in 0 .. thread_counts[trial] - 1 |-> <<>>]
    /\ pc' = "start_time"
    /\ now' = now + 1
    /\ UNCHANGED <<NUM_MATRICES, matrices, thread_counts, trial, matrices_per_thread,
                   i, joined, res_idx, total_trace, start_time, end_time, reports, ub>>

\* line 82-86: next thread count, fresh threads and partial_results
ForTrial ==
    /\ pc = "for_trial"
    /\ trial <= Len(thread_counts)
    /\ num_threads' = thread_counts[trial]
    /\ threads' = EmptyVec
    /\ partial_results' = [k \in 0 .. thread_counts[trial] - 1 |-> 0]
    /\ writers' = [k \in 0 .. thread_counts[trial] - 1 |-> <<>>]
    /\ pc' = "start_time"
    /\ now' = now + 1
    /\ UNCHANGED <<NUM_MATRICES, matrices, thread_counts, trial, matrices_per_thread,
                   i, joined, res_idx, total_trace, start_time, end_time, reports, ub>>

\* line 82, 126: the list is exhausted, return 0
ForExit ==
    /\ pc = "for_trial"
    /\ trial > Len(thread_counts)
    /\ pc' = "done"
    /\ now' = now + 1
    /\ UNCHANGED <<NUM_MATRICES, matrices, thread_counts, trial, num_threads, threads,
                   partial_results, matrices_per_thread, i, joined, res_idx,
                   total_trace, start_time, end_time, reports, writers, ub>>

\* line 89-93: start timestamp, matrices_per_thread, i = 0
StartTimer ==
    /\ pc = "start_time"
    /\ start_time' = now
    /\ matrices_per_thread' = PerThread(NUM_MATRICES, num_threads)
    /\ i' = 0
    /\ pc' = "launch"
    /\ now' = now + 1
    /\ UNCHANGED <<NUM_MATRICES, matrices, thread_counts, trial, num_threads, threads,
                   partial_results, joined, res_idx, total_trace, end_time, reports,
                   writers, ub>>

\* line 93-100: one iteration of the launch loop; the thread starts running
LaunchThread ==
    /\ pc = "launch"
    /\ i < num_threads
    /\ threads' = EmplaceBack(threads, NewThread(i))
    /\ i' = i + 1
    /\ now' = now + 1
    /\ UNCHANGED <<NUM_MATRICES, matrices, thread_counts, trial, pc, num_threads,
                   partial_results, matrices_per_thread, joined, res_idx, total_trace,
                   start_time, end_time, reports, writers, ub>>

\* a variant in which the failure is swallowed and the loop goes on
MutLaunchFailIgnored ==
    /\ pc = "launch"
    /\ i < num_threads
    /\ i' = i + 1
    /\ now' = now + 1
    /\ UNCHANGED <<NUM_MATRICES, matrices, thread_counts, trial, pc, num_threads,
                   threads, partial_results, matrices_per_thread, joined, res_idx,
                   total_trace, start_time, end_time, reports, writers, ub>>

\* line 100: std::thread's constructor throws std::system_error; nothing catches
\* it, std::terminate ends the process with the workers launched so far
LaunchFail ==
    /\ pc = "launch"
    /\ i < num_threads
    /\ pc' = "aborted"
    /\ now' = now + 1
    /\ UNCHANGED <<NUM_MATRICES, matrices, thread_counts, trial, num_threads, threads,
                   partial_results, matrices_per_thread, i, joined, res_idx,
                   total_trace, start_time, end_time, reports, writers, ub>>

\* a variant that takes the end timestamp right after the launch loop
MutLaunchExitStopsTimer ==
    /\ pc = "launch"
    /\ i >= num_threads
    /\ joined' = 0
    /\ pc' = "end_time"
    /\ now' = now + 1
    /\ UNCHANGED <<NUM_MATRICES, matrices, thread_counts, trial, num_threads, threads,
                   partial_results, matrices_per_thread, i, res_idx, total_trace,
                   start_time, end_time, reports, writers, ub>>

\* line 93: the launch loop ends; line 105: the join loop begins
LaunchExit ==
    /\ pc = "launch"
    /\ i >= num_threads
    /\ joined' = 0
    /\ pc' = "join"
    /\ now' = now + 1
    /\ UNCHANGED <<NUM_MATRICES, matrices, thread_counts, trial, num_threads, threads,
                   partial_results, matrices_per_thread, i, res_idx, total_trace,
                   start_time, end_time, reports, writers, ub>>

\* a variant that does not wait for the thread
MutJoinReturnsAtOnce(t) == TRUE

\* a variant that waits for a thread that was already joined
MutJoinReturnsNever(t) == t.state = "joined"

\* the condition under which t.join() returns
JoinReturns(t) == t.state = "done"

\* line 105-107: t.join() returns once the thread's function has returned
JoinThread ==
    /\ pc = "join"
    /\ joined < Size(threads)
    /\ JoinReturns(threads[joined])
    /\ threads' = [threads EXCEPT ![joined].state = "joined"]
    /\ joined' = joined + 1
    /\ now' = now + 1
    /\ UNCHANGED <<NUM_MATRICES, matrices, thread_counts, trial, pc, num_threads,
                   partial_results, matrices_per_thread, i, res_idx, total_trace,
                   start_time, end_time, reports, writers, ub>>

\* line 105: the join loop ends
JoinExit ==
    /\ pc = "join"
    /\ joined >= Size(threads)
    /\ pc' = "end_time"
    /\ now' = now + 1
    /\ UNCHANGED <<NUM_MATRICES, matrices, thread_counts, trial, num_threads, threads,
                   partial_results, matrices_per_thread, i, joined, res_idx,
                   total_trace, start_time, end_time, reports, writers, ub>>

\* a variant whose total_trace is not reset for the trial
MutStopTimerKeepsTotal ==
    /\ pc = "end_time"
    /\ end_time' = now
    /\ res_idx' = 0
    /\ pc' = "aggregate"
    /\ now' = now + 1
    /\ UNCHANGED <<NUM_MATRICES, matrices, thread_counts, trial, num_threads, threads,
                   partial_results, matrices_per_thread, i, joined, start_time,
                   total_trace, reports, writers, ub>>

\* line 110-115: end timestamp, total_trace = 0
StopTimer ==
    /\ pc = "end_time"
    /\ end_time' = now
    /\ total_trace' = 0
    /\ res_idx' = 0
    /\ pc' = "aggregate"
    /\ now' = now + 1
    /\ UNCHANGED <<NUM_MATRICES, matrices, thread_counts, trial, num_threads, threads,
                   partial_results, matrices_per_thread, i, joined, start_time,
                   reports, writers, ub>>

\* line 116-118: total_trace += res, for one slot
Aggregate ==
    /\ pc = "aggregate"
    /\ res_idx < Size(partial_results)
    /\ total_trace' = total_trace + partial_results[res_idx]
    /\ res_idx' = res_idx + 1
    /\ now' = now + 1
    /\ UNCHANGED <<NUM_MATRICES, matrices, thread_counts, trial, pc, num_threads,
                   threads, partial_results, matrices_per_thread, i, joined,
                   start_time, end_time, reports, writers, ub>>

\* line 116: the aggregation loop ends
AggregateExit ==
    /\ pc = "aggregate"
    /\ res_idx >= Size(partial_results)
    /\ pc' = "report"
    /\ now' = now + 1
    /\ UNCHANGED <<NUM_MATRICES, matrices, thread_counts, trial, num_threads, threads,
                   partial_results, matrices_per_thread, i, joined, res_idx,
                   total_trace, start_time, end_time, reports, writers, ub>>

\* line 121-124: print the total and the elapsed time; next trial
Report ==
    /\ pc = "report"
    /\ reports' = Append(reports, [num_threads |-> num_threads,
                                   total       |-> total_trace,
                                   elapsed     |-> end_time - start_time])
    /\ trial' = trial + 1
    /\ pc' = "for_trial"
    /\ now' = now + 1
    /\ UNCHANGED <<NUM_MATRICES, matrices, thread_counts, num_threads, threads,
                   partial_results, matrices_per_thread, i, joined, res_idx,
                   total_trace, start_time, end_time, writers, ub>>

(***************************************************************************)
(* trace_worker, run by thread k                                           *)
(***************************************************************************)
\* what matrices[idx] yields: out of range is undefined behaviour, any matrix
MatricesAt(idx) ==
    IF idx \in DOMAIN matrices THEN {matrices[idx]} ELSE SmallPool

\* a variant that clears the matrix it has processed
MutWorkerIterateClears(k) ==
    /\ pc # "aborted"
    /\ k \in DOMAIN threads
    /\ threads[k].state = "run"
    /\ threads[k].i < threads[k].end_index
    /\ threads[k].i \in DOMAIN matrices
    /\ threads' = [threads EXCEPT
                      ![k].trace = calculate_trace(matrices[threads[k].i]),
                      ![k].partial_sum = threads[k].partial_sum
                                             + calculate_trace(matrices[threads[k].i]),
                      ![k].reads = Append(@, threads[k].i),
                      ![k].i = threads[k].i + 1]
    /\ matrices' = [matrices EXCEPT ![threads[k].i] = ZeroMatrix]
    /\ now' = now + 1
    /\ UNCHANGED <<NUM_MATRICES, thread_counts, trial, pc, num_threads,
                   partial_results, matrices_per_thread, i, joined, res_idx,
                   total_trace, start_time, end_time, reports, writers, ub>>

\* a variant that accumulates into the result slot in every iteration
MutWorkerIterateWritesSlot(k) ==
    /\ pc # "aborted"
    /\ k \in DOMAIN threads
    /\ threads[k].state = "run"
    /\ threads[k].i < threads[k].end_index
    /\ threads[k].i \in DOMAIN matrices
    /\ threads' = [threads EXCEPT
                      ![k].trace = calculate_trace(matrices[threads[k].i]),
                      ![k].partial_sum = threads[k].partial_sum
                                             + calculate_trace(matrices[threads[k].i]),
                      ![k].reads = Append(@, threads[k].i),
                      ![k].i = threads[k].i + 1]
    /\ partial_results' = [partial_results EXCEPT ![threads[k].result] =
                               @ + calculate_trace(matrices[threads[k].i])]
    /\ writers' = [writers EXCEPT ![threads[k].result] = Append(@, k)]
    /\ now' = now + 1
    /\ UNCHANGED <<NUM_MATRICES, matrices, thread_counts, trial, pc, num_threads,
                   matrices_per_thread, i, joined, res_idx, total_trace, start_time,
                   end_time, reports, ub>>

\* line 47-49: one iteration, partial_sum += calculate_trace(matrices[i])
WorkerIterate(k) ==
    /\ pc # "aborted"
    /\ k \in DOMAIN threads
    /\ threads[k].state = "run"
    /\ threads[k].i < threads[k].end_index
    /\ \E m \in MatricesAt(threads[k].i) :
           threads' = [threads EXCEPT
                          ![k].trace = calculate_trace(m),
                          ![k].partial_sum = threads[k].partial_sum + calculate_trace(m),
                          ![k].reads = Append(@, threads[k].i),
                          ![k].i = threads[k].i + 1]
    /\ ub' = (ub \/ threads[k].i \notin DOMAIN matrices)
    /\ now' = now + 1
    /\ UNCHANGED <<NUM_MATRICES, matrices, thread_counts, trial, pc, num_threads,
                   partial_results, matrices_per_thread, i, joined, res_idx,
                   total_trace, start_time, end_time, reports, writers>>

\* line 47, 51-52: the loop ends, result = partial_sum, the function returns
WorkerFinish(k) ==
    /\ pc # "aborted"
    /\ k \in DOMAIN threads
    /\ threads[k].state = "run"
    /\ threads[k].i >= threads[k].end_index
    /\ partial_results' = [partial_results EXCEPT ![threads[k].result] = threads[k].partial_sum]
    /\ writers' = [writers EXCEPT ![threads[k].result] = Append(@, k)]
    /\ threads' = [threads EXCEPT ![k].state = "done"]
    /\ now' = now + 1
    /\ UNCHANGED <<NUM_MATRICES, matrices, thread_counts, trial, pc, num_threads,
                   matrices_per_thread, i, joined, res_idx, total_trace, start_time,
                   end_time, reports, ub>>

Worker(k) == WorkerIterate(k) \/ WorkerFinish(k)

Main ==
    \/ ForTrial
    \/ ForExit
    \/ StartTimer
    \/ LaunchThread
    \/ LaunchExit
    \/ JoinThread
    \/ JoinExit
    \/ StopTimer
    \/ Aggregate
    \/ AggregateExit
    \/ Report

\* every step the program takes while thread creation succeeds
NextOK ==
    \/ Main
    \/ \E k \in DOMAIN threads : WorkerIterate(k)
    \/ \E k \in DOMAIN threads : WorkerFinish(k)

Next ==
    \/ NextOK
    \/ LaunchFail

Spec == Init /\ [][Next]_vars

SpecAny == InitAny /\ [][Next]_vars

SpecPart == InitPart /\ [][Next]_vars

SpecTrace == InitTrace /\ [][Next]_vars

SpecRange == InitRange /\ [][Next]_vars

\* the largest thread count of the program's list
MaxThreadCount == 8

\* the program while thread creation succeeds, every thread scheduled fairly
LiveSpec ==
    /\ InitLive
    /\ [][NextOK]_vars
    /\ WF_vars(Main)
    /\ \A k \in 0 .. MaxThreadCount - 1 : WF_vars(Worker(k))

(***************************************************************************)
(* Reference definitions used by the properties                            *)
(***************************************************************************)
\* the sum of calculate_trace over the matrices with index in lo..hi-1
RECURSIVE SumOfTraces(_, _, _)
SumOfTraces(ms, lo, hi) ==
    IF lo >= hi THEN 0 ELSE calculate_trace(ms[hi - 1]) + SumOfTraces(ms, lo, hi - 1)

\* the sum of the cells (r, r) of m, r in rows
RECURSIVE DiagonalSum(_, _)
DiagonalSum(m, rows) ==
    IF rows = {} THEN 0
    ELSE LET r == CHOOSE x \in rows : TRUE
         IN  m[r][r] + DiagonalSum(m, rows \ {r})

\* the matrix [[1,2],[3,4]]
Example2x2 == (0 :> (0 :> 1 @@ 1 :> 2)) @@ (1 :> (0 :> 3 @@ 1 :> 4))

\* the sum of the slots of a vector
RECURSIVE SumOfSlots(_, _)
SumOfSlots(v, n) == IF n = 0 THEN 0 ELSE v[n - 1] + SumOfSlots(v, n - 1)

\* every worker of the current trial has been launched
AllLaunched == num_threads >= 1 /\ Size(threads) = num_threads

\* the indices worker k is launched with
RangeOf(k) == threads[k].start_index .. threads[k].end_index - 1

RangeSize(k) == threads[k].end_index - threads[k].start_index

\* the main thread is past the join loop
PastJoin == pc \in {"end_time", "aggregate", "report"}

\* thread k's function has returned
Terminated(k) == threads[k].state \in {"done", "joined"}

(***************************************************************************)
(* C1: whenever a trial with N <= M workers has its grand total (when the  *)
(* aggregation loop has ended, and in what was reported), the total is the *)
(* sum of calculate_trace over all M matrices, whatever the interleaving,  *)
(* and so equals the total reported by the trial with one worker.          *)
(***************************************************************************)
C1_TotalIsSumOfTraces ==
    /\ (pc = "report" /\ num_threads <= NUM_MATRICES)
           => total_trace = SumOfTraces(matrices, 0, NUM_MATRICES)
    /\ \A r \in 1 .. Len(reports) :
           reports[r].num_threads <= NUM_MATRICES
               => /\ reports[r].total = SumOfTraces(matrices, 0, NUM_MATRICES)
                  /\ reports[1].num_threads = 1
                  /\ reports[r].total = reports[1].total

\* three matrices, one worker and then three workers have reported the same
\* non-zero total (15 for three copies of [[1,2],[3,4]])
C1_Witness ==
    /\ NUM_MATRICES = 3
    /\ \A k \in 0 .. 2 : matrices[k] = RowMajorMatrix
    /\ Len(reports) = 2
    /\ reports[1].num_threads = 1
    /\ reports[2].num_threads = 3
    /\ reports[2].total = 3 * calculate_trace(RowMajorMatrix)
    /\ reports[2].total # 0
    /\ MATRIX_SIZE = 2 => reports[1].total = 15 /\ reports[2].total = 15

(***************************************************************************)
(* C2: join barrier.  Whenever the main thread is past the join loop       *)
(* (taking the end timestamp, reading a slot, reporting), every one of the *)
(* N workers of the trial has been launched, has written its slot and has  *)
(* terminated: no worker is running while a slot is read.                  *)
(***************************************************************************)
C2_JoinBarrier ==
    PastJoin =>
        /\ Size(threads) = num_threads
        /\ \A k \in DOMAIN threads :
               /\ threads[k].state = "joined"
               /\ threads[k].i >= threads[k].end_index
               /\ Len(writers[threads[k].result]) >= 1

\* the aggregator is reading slot 3 of the trial with 8 workers
C2_Witness ==
    /\ pc = "aggregate"
    /\ num_threads = 8
    /\ res_idx = 3
    /\ \A k \in DOMAIN threads : threads[k].state = "joined"

(***************************************************************************)
(* C3: no data race on partial results.  In a trial, the threads are given *)
(* pairwise different slots, thread k slot k; a slot is written at most    *)
(* once, by its own thread, exactly once when that thread has terminated,  *)
(* and holds its initial 0 until then; the main thread reads slot k only   *)
(* when thread k has terminated.  (No worker step reads a slot or takes a  *)
(* lock: trace_worker has no such step.)                                   *)
(***************************************************************************)
C3_NoDataRace ==
    /\ \A j, k \in DOMAIN threads : j # k => threads[j].result # threads[k].result
    /\ \A k \in DOMAIN threads : threads[k].result = k
    /\ \A s \in DOMAIN writers :
           /\ Len(writers[s]) <= 1
           /\ \A w \in 1 .. Len(writers[s]) : writers[s][w] = s
           /\ (s \in DOMAIN threads /\ Terminated(s)) => Len(writers[s]) = 1
           /\ (s \notin DOMAIN threads \/ ~Terminated(s))
                  => Len(writers[s]) = 0 /\ partial_results[s] = 0
    /\ (pc = "aggregate" /\ res_idx < Size(partial_results))
           => res_idx \in DOMAIN threads /\ Terminated(res_idx)

\* in the trial with 8 workers, slot 5 has been written by thread 5 while
\* thread 2 is still running and its slot is unwritten
C3_Witness ==
    /\ num_threads = 8
    /\ Size(threads) = 8
    /\ writers[5] = <<5>>
    /\ threads[2].state = "run"
    /\ writers[2] = <<>>

(***************************************************************************)
(* C4: partition coverage.  When all N workers of a trial are launched and *)
(* 1 <= N <= M, every index of [0, M) lies in the range of exactly one     *)
(* worker and no range contains an index outside [0, M).                   *)
(***************************************************************************)
C4_PartitionCoverage ==
    (AllLaunched /\ num_threads <= NUM_MATRICES) =>
        /\ \A idx \in 0 .. NUM_MATRICES - 1 :
               Cardinality({k \in DOMAIN threads : idx \in RangeOf(k)}) = 1
        /\ \A k \in DOMAIN threads :
               /\ RangeOf(k) \subseteq 0 .. NUM_MATRICES - 1
               /\ threads[k].start_index <= threads[k].end_index

\* 3 workers launched over 10 matrices (3 does not divide 10)
C4_Witness ==
    /\ AllLaunched
    /\ num_threads = 3
    /\ NUM_MATRICES = 10

(***************************************************************************)
(* C5: partition formula.  With per_worker = M / N, every launched worker  *)
(* k < N-1 has the range [k*per_worker, (k+1)*per_worker) and worker N-1   *)
(* has [(N-1)*per_worker, M); for M = 10, N = 4 the ranges are [0,2),      *)
(* [2,4), [4,6), [6,10).                                                   *)
(***************************************************************************)
C5_PartitionFormula ==
    /\ \A k \in DOMAIN threads :
           LET per_worker == NUM_MATRICES \div num_threads
           IN  /\ threads[k].start_index = k * per_worker
               /\ k < num_threads - 1 => threads[k].end_index = (k + 1) * per_worker
               /\ k = num_threads - 1 => threads[k].end_index = NUM_MATRICES
    /\ (AllLaunched /\ NUM_MATRICES = 10 /\ num_threads = 4) =>
           /\ threads[0].start_index = 0 /\ threads[0].end_index = 2
           /\ threads[1].start_index = 2 /\ threads[1].end_index = 4
           /\ threads[2].start_index = 4 /\ threads[2].end_index = 6
           /\ threads[3].start_index = 6 /\ threads[3].end_index = 10

\* 4 workers launched over 10 matrices
C5_Witness ==
    /\ AllLaunched
    /\ num_threads = 4
    /\ NUM_MATRICES = 10
    /\ threads[3].end_index = 10

(***************************************************************************)
(* C6: remainder absorption.  When all N workers are launched and          *)
(* 1 <= N <= M, the last worker's range has M - (N-1)*(M/N) elements,      *)
(* every other worker's range has exactly M/N, and the last has at least   *)
(* as many as any other and at most N-1 more.                              *)
(***************************************************************************)
C6_RemainderAbsorption ==
    (AllLaunched /\ num_threads <= NUM_MATRICES) =>
        LET last == num_threads - 1
            per_worker == NUM_MATRICES \div num_threads
        IN  /\ RangeSize(last) = NUM_MATRICES - (num_threads - 1) * per_worker
            /\ \A k \in DOMAIN threads \ {last} :
                   /\ RangeSize(k) = per_worker
                   /\ RangeSize(last) >= RangeSize(k)
                   /\ RangeSize(last) - RangeSize(k) <= num_threads - 1

\* 4 workers over 7 matrices: the last has 4 = 1 + (N-1) elements, the extreme case
C6_Witness ==
    /\ AllLaunched
    /\ num_threads = 4
    /\ NUM_MATRICES = 7
    /\ RangeSize(3) = 4
    /\ RangeSize(0) = 1

(***************************************************************************)
(* C7: what calculate_trace returned to a worker for the matrix it has     *)
(* just processed is the sum of that matrix's cells (r, r) and nothing     *)
(* else: 0 for the all-zero matrix, S*v when every diagonal cell is v      *)
(* whatever the other cells, and 5 for [[1,2],[3,4]].                      *)
(***************************************************************************)
C7_TraceIsDiagonalSum ==
    \A k \in DOMAIN threads :
        (threads[k].i > threads[k].start_index /\ threads[k].i - 1 \in DOMAIN matrices) =>
            LET m == matrices[threads[k].i - 1]
                t == threads[k].trace
            IN  /\ t = DiagonalSum(m, Idx)
                /\ m = ZeroMatrix => t = 0
                /\ \A v \in RANDOM_MIN .. MaxDiagValue :
                       (\A r \in Idx : m[r][r] = v) => t = MATRIX_SIZE * v
                /\ (MATRIX_SIZE = 2 /\ m = Example2x2) => t = 5

\* a worker has processed a matrix whose diagonal cells are all 3 and whose other
\* cells are not, and got 3 * MATRIX_SIZE
C7_Witness ==
    /\ 0 \in DOMAIN threads
    /\ threads[0].i = 1
    /\ matrices[0] = WithDiagonal([r \in Idx |-> 3], RowMajorMatrix)
    /\ matrices[0][0][MATRIX_SIZE - 1] # 3
    /\ threads[0].trace = 3 * MATRIX_SIZE

(***************************************************************************)
(* C8: the matrix collection is read-only once generated: no step of the   *)
(* main thread or of any worker changes a matrix cell or the number of     *)
(* matrices, so every trial sees the same collection.                      *)
(***************************************************************************)
C8_MatricesReadOnly ==
    [][matrices' = matrices /\ NUM_MATRICES' = NUM_MATRICES]_vars

\* the trial with 8 workers has reported after the trial with 1 worker
C8_Witness ==
    /\ Len(reports) = 4
    /\ reports[1].num_threads = 1
    /\ reports[4].num_threads = 8
    /\ \E k \in DOMAIN matrices : matrices[k] # ZeroMatrix

(***************************************************************************)
(* C9: while thread creation succeeds and every thread is scheduled        *)
(* fairly, the program ends up terminated normally with exactly one total  *)
(* reported for each of the thread counts 1, 2, 4, 8, in that order; until *)
(* then some step is always possible (no deadlock), and the totals are     *)
(* reported in the order of the list, one per thread count.                *)
(***************************************************************************)
ReportedCounts == [r \in 1 .. Len(reports) |-> reports[r].num_threads]

C10_NoPartialTotal ==
    /\ Len(reports) = trial - 1
    /\ pc = "aborted" =>
           /\ Size(threads) < num_threads
           /\ ~ENABLED Next
    /\ pc = "report" =>
           /\ Size(threads) = num_threads
           /\ \A k \in 0 .. num_threads - 1 : writers[k] = <<k>>
           /\ total_trace = SumOfSlots(partial_results, num_threads)

\* the trial with 4 workers aborted at its third launch, with one of the two
\* workers already started still running; the trials with 1 and 2 had reported
C10_Witness ==
    /\ pc = "aborted"
    /\ num_threads = 4
    /\ Size(threads) = 2
    /\ threads[0].state = "done"
    /\ threads[1].state = "run"
    /\ Len(reports) = 2

(***************************************************************************)
(* C11: trials are isolated.  When a trial is about to launch its first    *)
(* worker it has exactly N slots, all zero and unwritten, and no threads;  *)
(* whenever the main thread is between two trials every thread of the      *)
(* earlier trial has been joined; and when a trial reports, every slot     *)
(* holds the sum over the range its own worker was launched with in this   *)
(* trial, the total being the sum of these slots.                          *)
(***************************************************************************)
C11_TrialsIsolated ==
    /\ (pc = "start_time" \/ (pc = "launch" /\ i = 0)) =>
           /\ threads = EmptyVec
           /\ num_threads = thread_counts[trial]
           /\ DOMAIN partial_results = 0 .. num_threads - 1
           /\ \A k \in DOMAIN partial_results :
                  partial_results[k] = 0 /\ writers[k] = <<>>
    /\ pc = "for_trial" =>
           \A k \in DOMAIN threads : threads[k].state = "joined"
    /\ pc = "report" =>
           /\ Size(threads) = num_threads
           /\ \A k \in DOMAIN threads :
                  partial_results[k] =
                      SumOfTraces(matrices, threads[k].start_index, threads[k].end_index)
           /\ total_trace = SumOfSlots(partial_results, num_threads)

\* the third trial (4 workers) is about to launch its first worker, after two
\* trials that reported a non-zero total
C11_Witness ==
    /\ pc = "launch"
    /\ i = 0
    /\ trial = 3
    /\ num_threads = 4
    /\ Len(reports) = 2
    /\ reports[2].total # 0
    /\ \A k \in 0 .. 3 : partial_results[k] = 0

(***************************************************************************)
(* C12: no integer overflow.  With every cell in RANDOM_MIN..RANDOM_MAX,   *)
(* every trace stays within MATRIX_SIZE * RANDOM_MAX in absolute value,    *)
(* every partial_sum within that times the number of matrices the worker   *)
(* has processed, and every slot, total_trace and reported total within    *)
(* NUM_MATRICES * MATRIX_SIZE * RANDOM_MAX.  For the program's constants   *)
(* (1000 matrices, size 50, values -100..100) these bounds are 5000 and    *)
(* 5000000, far inside the signed 64-bit range.                            *)
(***************************************************************************)
\* the constants of the program, unscaled
SrcNumMatrices == 1000
SrcMatrixSize == 50
SrcRandomMax == 100

Abs(x) == IF x < 0 THEN 0 - x ELSE x

TraceBound == MATRIX_SIZE * RANDOM_MAX

C12_NoOverflow ==
    /\ RANDOM_MIN = 0 - RANDOM_MAX
    /\ \A k \in DOMAIN threads :
           LET t == threads[k]
           IN  /\ Abs(t.trace) <= TraceBound
               /\ t.i - t.start_index <= NUM_MATRICES
               /\ Abs(t.partial_sum) <= (t.i - t.start_index) * TraceBound
    /\ \A k \in DOMAIN partial_results :
           Abs(partial_results[k]) <= NUM_MATRICES * TraceBound
    /\ Abs(total_trace) <= NUM_MATRICES * TraceBound
    /\ \A r \in 1 .. Len(reports) : Abs(reports[r].total) <= NUM_MATRICES * TraceBound
    /\ SrcMatrixSize * SrcRandomMax = 5000
    /\ SrcNumMatrices * SrcMatrixSize * SrcRandomMax = 5000000
    /\ 5000000 < 2147483647

\* the bound is reached: over a collection whose cells are all RANDOM_MAX the
\* trial with 8 workers reports NUM_MATRICES * MATRIX_SIZE * RANDOM_MAX
C12_Witness ==
    /\ \A k \in DOMAIN matrices : matrices[k] = MaxMatrix
    /\ pc = "report"
    /\ num_threads = 8
    /\ total_trace = NUM_MATRICES * TraceBound
    /\ threads[0].trace = TraceBound

(***************************************************************************)
(* C13: worker postcondition.  A worker launched with [start, end) reads   *)
(* the matrices start, start+1, ... in turn, each once and none outside    *)
(* its range; its slot stays unwritten while it runs; when it has          *)
(* terminated it has read exactly the indices of its range, its slot holds *)
(* the sum of calculate_trace over them (0 for an empty range), written    *)
(* once, and it takes no further step.                                     *)
(***************************************************************************)
C13_WorkerPostcondition ==
    \A k \in DOMAIN threads :
        LET t == threads[k]
        IN  /\ Len(t.reads) = t.i - t.start_index
            /\ \A r \in 1 .. Len(t.reads) :
                   /\ t.reads[r] = t.start_index + r - 1
                   /\ t.reads[r] >= t.start_index
                   /\ t.reads[r] < t.end_index
            /\ t.state = "run" =>
                   writers[t.result] = <<>> /\ partial_results[t.result] = 0
            /\ Terminated(k) =>
                   /\ t.i = IF t.end_index > t.start_index THEN t.end_index
                                                           ELSE t.start_index
                   /\ writers[t.result] = <<k>>
                   /\ partial_results[t.result] =
                          SumOfTraces(matrices, t.start_index, t.end_index)
                   /\ t.end_index <= t.start_index => partial_results[t.result] = 0
                   /\ ~ENABLED Worker(k)

\* of three workers over four matrices, the last, launched with [2, 4), has
\* terminated with a non-zero sum in its slot, while worker 0 is still running
C13_Witness ==
    /\ NUM_MATRICES = 4
    /\ num_threads = 3
    /\ Size(threads) = 3
    /\ threads[2].state = "done"
    /\ threads[2].reads = <<2, 3>>
    /\ partial_results[2] = calculate_trace(matrices[2]) + calculate_trace(matrices[3])
    /\ partial_results[2] # 0
    /\ threads[0].state = "run"

(***************************************************************************)
(* C14: partition bounds are in range.  For every M >= 1 and N >= 1, also  *)
(* N > M, every launched worker has 0 <= start_index <= end_index <= M,    *)
(* every index it has read lies in [0, M), and no out-of-range read of the *)
(* collection has happened.                                                *)
(***************************************************************************)
C14_BoundsInRange ==
    /\ \A k \in DOMAIN threads :
           /\ 0 <= threads[k].start_index
           /\ threads[k].start_index <= threads[k].end_index
           /\ threads[k].end_index <= NUM_MATRICES
           /\ \A r \in 1 .. Len(threads[k].reads) :
                  threads[k].reads[r] \in DOMAIN matrices
    /\ ub = FALSE

\* 4 workers over 3 matrices (N > M): all are launched and the last has read
\* the last matrix
C14_Witness ==
    /\ NUM_MATRICES = 3
    /\ num_threads = 4
    /\ Size(threads) = 4
    /\ threads[3].reads = <<0, 1, 2>>
    /\ threads[0].end_index = 0

(***************************************************************************)
(* C15: degenerate worker count.  In a trial with N > M, per_worker is 0,  *)
(* the workers 0..N-2 are launched with the empty range [0, 0), read       *)
(* nothing and write 0, worker N-1 is launched with [0, M), no range has   *)
(* end < start, and the grand total is still the sum of the traces of all  *)
(* M matrices.                                                             *)
(***************************************************************************)
C15_DegenerateCount ==
    /\ (num_threads > NUM_MATRICES /\ pc # "start_time") =>
           /\ matrices_per_thread = 0
           /\ \A k \in DOMAIN threads :
                  /\ threads[k].start_index = 0
                  /\ threads[k].start_index <= threads[k].end_index
                  /\ k < num_threads - 1 =>
                         /\ threads[k].end_index = 0
                         /\ threads[k].reads = <<>>
                         /\ partial_results[k] = 0
                  /\ k = num_threads - 1 => threads[k].end_index = NUM_MATRICES
           /\ pc = "report" => total_trace = SumOfTraces(matrices, 0, NUM_MATRICES)
    /\ \A r \in 1 .. Len(reports) :
           reports[r].num_threads > NUM_MATRICES
               => reports[r].total = SumOfTraces(matrices, 0, NUM_MATRICES)

\* 3 workers over 2 matrices have reported a non-zero total, the first two
\* workers having written 0
C15_Witness ==
    /\ NUM_MATRICES = 2
    /\ Len(reports) = 2
    /\ reports[2].num_threads = 3
    /\ reports[2].total # 0
    /\ writers[0] = <<0>> /\ partial_results[0] = 0
    /\ writers[1] = <<1>> /\ partial_results[1] = 0
    /\ partial_results[2] = reports[2].total

(***************************************************************************)
(* C16: timing window ordering.  In every trial,                           *)
(*  - the step that takes the start timestamp finds no thread launched;    *)
(*  - every launch and every worker step is taken after the start          *)
(*    timestamp of the trial and before its end timestamp (the main thread *)
(*    is in the launch or join loop, the end timestamp is still that of    *)
(*    an earlier trial);                                                   *)
(*  - the step that takes the end timestamp finds all N threads joined and *)
(*    no slot read yet;                                                    *)
(*  - every read of a slot and every report comes after the end timestamp; *)
(*  - the elapsed time reported is end - start and is not negative.        *)
(***************************************************************************)
\* this step is a step of a running worker
WorkerStep ==
    \E k \in DOMAIN threads :
        /\ threads[k].state = "run"
        /\ k \in DOMAIN threads'
        /\ threads'[k] # threads[k]

\* this step launches a thread
LaunchStep == Size(threads') > Size(threads)

C16_TimingWindow ==
    [][/\ (pc = "start_time" /\ pc' # pc) =>
              /\ threads = EmptyVec
              /\ threads' = EmptyVec
              /\ start_time' = now
       /\ (WorkerStep \/ LaunchStep) =>
              /\ pc \in {"launch", "join"}
              /\ end_time < start_time
              /\ start_time < now
       /\ (pc = "end_time" /\ pc' # pc) =>
              /\ Size(threads) = num_threads
              /\ \A k \in DOMAIN threads : threads[k].state = "joined"
              /\ ~WorkerStep
              /\ end_time' = now
              /\ start_time < end_time'
              /\ res_idx' = 0
       /\ (pc \in {"aggregate", "report"}) =>
              /\ start_time < end_time
              /\ end_time < now
              /\ ~WorkerStep
       /\ Len(reports') > Len(reports) =>
              /\ reports'[Len(reports')].elapsed = end_time - start_time
              /\ reports'[Len(reports')].elapsed >= 0
      ]_vars

\* the trial with 8 workers is reading slot 0: its window holds the 8 launches
\* and the 16 worker steps at least
C16_Witness ==
    /\ pc = "aggregate"
    /\ num_threads = 8
    /\ res_idx = 0
    /\ end_time - start_time >= 8 + 16
    /\ end_time < now

=============================================================================
